---- MODULE Spec2Model ----
(***************************************************************************)
(* Model of scripts/export_form_analysis.py: one run of main() against a   *)
(* SQLite store holding the form_analysis table, with the five export      *)
(* functions (export_json, export_automation_config, export_csv,           *)
(* export_markdown_table, show_stats) as operators over the table rows.    *)
(*                                                                         *)
(* Values.  A stored SQLite value or a Python value is a tagged tuple:     *)
(*   <<"null">>            NULL / None                                     *)
(*   <<"int", n>>          an INTEGER / int                                *)
(*   <<"text", s>>         a TEXT / str; s is the sequence of its chars    *)
(*   <<"bool", b>>         a Python bool                                   *)
(*   <<"num", n>>, <<"arr", s>>   a structure decoded by json.loads        *)
(***************************************************************************)
EXTENDS Integers, Sequences, FiniteSets, TLC

VARIABLES
    dbExists,     \* db_path.exists()
    tableExists,  \* sqlite_master holds a table named form_analysis
    table,        \* the rows of form_analysis, in rowid order
    args,         \* argparse namespace: format, broker, output, pretty
    pc,           \* position of main()
    conn,         \* "none" | "open" | "closed"
    output,       \* the local `output` of main()
    stdout,       \* what was printed to sys.stdout, in order
    stderr,       \* what was printed to sys.stderr, in order
    file,         \* what was written to the file args.output, in order
    events,       \* history of the run's external operations, in order
    exitCode      \* process exit status; NoExit while running

vars == <<dbExists, tableExists, table, args, pc, conn, output, stdout,
          stderr, file, events, exitCode>>

-----------------------------------------------------------------------------
(* Bounds *)

\* longest encoded-text value (field_mappings, ...) drawn for the store
MaxJsonLen == 2
\* longest analyzed_at value drawn for the store
MaxDateLen == 2

-----------------------------------------------------------------------------
(* Values *)

NULL == <<"null">>
Integer(n) == <<"int", n>>
Text(s) == <<"text", s>>
Bool(b) == <<"bool", b>>

IsNull(v) == v[1] = "null"
IsText(v) == v[1] = "text"
IsInt(v) == v[1] = "int"

\* Python truthiness, as used by `if x:`, `x or y`, `a if x else b`, bool(x)
Truthy(v) ==
    CASE v[1] = "null" -> FALSE
      [] v[1] = "int" -> v[2] # 0
      [] v[1] = "text" -> v[2] # <<>>
      [] v[1] = "bool" -> v[2]
      [] v[1] = "num" -> v[2] # 0
      [] v[1] = "arr" -> v[2] # <<>>

\* all sequences over alphabet of length at most n
RECURSIVE SeqsUpTo(_, _)
SeqsUpTo(alphabet, n) ==
    IF n = 0 THEN {<<>>}
    ELSE LET shorter == SeqsUpTo(alphabet, n - 1)
         IN shorter \cup {Append(s, c) : s \in shorter, c \in alphabet}

-----------------------------------------------------------------------------
(* json.loads on the fragment of JSON written with "[", "]" and the digit  *)
(* "1": a value is a number 1+ or an array of at most one value.           *)

JsonAlphabet == {"[", "]", "1"}

\* index just past the run of digits that starts at i
RECURSIVE DigitsEnd(_, _)
DigitsEnd(s, i) ==
    IF i <= Len(s) /\ s[i] = "1" THEN DigitsEnd(s, i + 1) ELSE i

\* the number written with n digits "1"
RECURSIVE Ones(_)
Ones(n) == IF n = 0 THEN 0 ELSE 10 * Ones(n - 1) + 1

\* the JSON value starting at s[i]: [ok, val, next]
RECURSIVE ParseValue(_, _)
ParseValue(s, i) ==
    IF i > Len(s) THEN [ok |-> FALSE]
    ELSE IF s[i] = "1" THEN
        LET j == DigitsEnd(s, i)
        IN [ok |-> TRUE, val |-> <<"num", Ones(j - i)>>, next |-> j]
    ELSE IF s[i] = "[" THEN
        IF i + 1 <= Len(s) /\ s[i + 1] = "]"
        THEN [ok |-> TRUE, val |-> <<"arr", <<>>>>, next |-> i + 2]
        ELSE LET e == ParseValue(s, i + 1)
             IN IF e.ok /\ e.next <= Len(s) /\ s[e.next] = "]"
                THEN [ok |-> TRUE, val |-> <<"arr", <<e.val>>>>,
                      next |-> e.next + 1]
                ELSE [ok |-> FALSE]
    ELSE [ok |-> FALSE]

\* json.loads(s): ok = FALSE stands for json.JSONDecodeError
JsonLoads(s) ==
    LET r == ParseValue(s, 1)
    IN IF r.ok /\ r.next = Len(s) + 1
       THEN [ok |-> TRUE, val |-> r.val]
       ELSE [ok |-> FALSE]

-----------------------------------------------------------------------------
(* str.split() with no argument: the maximal runs of non-whitespace        *)

IsSpace(c) == c = " "

RECURSIVE SplitFrom(_, _, _)
SplitFrom(s, i, cur) ==
    IF i > Len(s) THEN (IF cur = <<>> THEN <<>> ELSE <<cur>>)
    ELSE IF IsSpace(s[i])
         THEN (IF cur = <<>> THEN <<>> ELSE <<cur>>) \o SplitFrom(s, i + 1, <<>>)
         ELSE SplitFrom(s, i + 1, Append(cur, s[i]))

Split(s) == SplitFrom(s, 1, <<>>)

-----------------------------------------------------------------------------
(* The form_analysis table *)

\* the columns of form_analysis the script names, in the order SELECT * gives
Columns ==
    <<"broker_id", "page_url", "form_selector", "field_mappings",
      "captcha_type", "captcha_selector", "submit_button_selector",
      "confirmation_selector", "confirmation_text_pattern",
      "required_delays", "requires_search_first", "search_form_details",
      "multi_step", "has_rate_limiting", "uses_ajax",
      "redirect_after_submit", "known_working", "analyzed_at">>

ColumnSet == {Columns[i] : i \in 1..Len(Columns)}

\* the `for json_field in [...]` list of export_json / export_automation_config
JsonFields == <<"field_mappings", "search_form_details", "required_delays">>

\* the `for bool_field in [...]` list of export_json
BoolFields ==
    <<"multi_step", "requires_search_first", "has_rate_limiting",
      "uses_ajax", "redirect_after_submit", "known_working">>

\* the SELECT list of export_automation_config
AutomationColumns ==
    <<"broker_id", "page_url", "form_selector", "field_mappings",
      "captcha_type", "captcha_selector", "submit_button_selector",
      "confirmation_selector", "confirmation_text_pattern",
      "required_delays", "requires_search_first", "search_form_details">>

Range(s) == {s[i] : i \in 1..Len(s)}

\* the literal 'none' of export_markdown_table and show_stats
NoneText == Text(<<"n", "o", "n", "e">>)

\* SQL `col = value` in a WHERE clause: NULL compares as not true
SqlEq(v, w) == ~IsNull(v) /\ ~IsNull(w) /\ v = w

\* SQL `captcha_type IS NOT NULL AND captcha_type != 'none'`
HasCaptcha(row) ==
    ~IsNull(row["captcha_type"]) /\ row["captcha_type"] # NoneText

\* BINARY collation of two TEXT values: memcmp, then the shorter first
CharCode(c) ==
    CASE c = " " -> 32 [] c = "1" -> 49 [] c = "[" -> 91 [] c = "]" -> 93
      [] c = "a" -> 97 [] c = "b" -> 98 [] c = "d" -> 100 [] c = "e" -> 101
      [] c = "n" -> 110 [] c = "o" -> 111 [] c = "x" -> 120 [] c = "y" -> 121
      [] OTHER -> 0

RECURSIVE TextLess(_, _)
TextLess(s, t) ==
    IF t = <<>> THEN FALSE
    ELSE IF s = <<>> THEN TRUE
    ELSE IF CharCode(Head(s)) # CharCode(Head(t))
         THEN CharCode(Head(s)) < CharCode(Head(t))
         ELSE TextLess(Tail(s), Tail(t))

\* SQL ordering of two stored values: NULL, then INTEGER, then TEXT
SqlLess(v, w) ==
    CASE IsNull(v) -> ~IsNull(w)
      [] IsInt(v) -> IsText(w) \/ (IsInt(w) /\ v[2] < w[2])
      [] OTHER -> IsText(w) /\ TextLess(v[2], w[2])

\* ORDER BY broker_id: insertion of each row after the rows not above it
RECURSIVE InsertById(_, _)
InsertById(row, sorted) ==
    IF sorted = <<>> THEN <<row>>
    ELSE IF SqlLess(row["broker_id"], Head(sorted)["broker_id"])
         THEN <<row>> \o sorted
         ELSE <<Head(sorted)>> \o InsertById(row, Tail(sorted))

RECURSIVE OrderByBrokerId(_)
OrderByBrokerId(t) ==
    IF t = <<>> THEN <<>>
    ELSE InsertById(t[Len(t)], OrderByBrokerId(SubSeq(t, 1, Len(t) - 1)))

\* `if broker_id:` then WHERE broker_id = ?, else every row
FilterByBroker(t, broker_id) ==
    IF Truthy(broker_id)
    THEN LET Keep(row) == SqlEq(row["broker_id"], broker_id)
         IN SelectSeq(t, Keep)
    ELSE t

-----------------------------------------------------------------------------
(* json.dumps, str() and the csv writer's cell conversion *)

\* json.dumps of a Python value: the JSON value written
RECURSIVE JsonDumps(_)
JsonDumps(v) ==
    CASE v[1] = "null" -> <<"jnull">>
      [] v[1] = "bool" -> <<"jbool", v[2]>>
      [] v[1] = "int" -> <<"jnum", v[2]>>
      [] v[1] = "num" -> <<"jnum", v[2]>>
      [] v[1] = "text" -> <<"jstr", v[2]>>
      [] v[1] = "arr" ->
            <<"jarr", [i \in 1..Len(v[2]) |-> JsonDumps(v[2][i])]>>

\* the decimal digits of a natural number
RECURSIVE Digits(_)
Digits(n) ==
    LET d == <<"0", "1", "2", "3", "4", "5", "6", "7", "8", "9">>
    IN IF n < 10 THEN <<d[n + 1]>>
       ELSE Append(Digits(n \div 10), d[(n % 10) + 1])

\* str(v), as an f-string formats a value
Str(v) ==
    CASE v[1] = "null" -> <<"N", "o", "n", "e">>
      [] v[1] = "int" -> Digits(v[2])
      [] OTHER -> v[2]

\* csv.DictWriter: None is written as the empty string
CsvCell(v) == IF IsNull(v) THEN <<>> ELSE Str(v)

-----------------------------------------------------------------------------
(* export_json *)

\* lines 41-45: decode a non-empty value, keep the text on JSONDecodeError
DecodeOrKeep(v) ==
    IF Truthy(v)
    THEN LET r == JsonLoads(v[2]) IN IF r.ok THEN r.val ELSE v
    ELSE v

\* lines 50-51: a value that is not None becomes bool(value)
\* fault variant: the `is not None` test dropped
CoerceBoolOfNone(v) == Bool(Truthy(v))

CoerceBool(v) == IF ~IsNull(v) THEN Bool(Truthy(v)) ELSE v

\* lines 37-51: the record appended to data for one row
JsonRecord(row) ==
    LET parsed == [c \in ColumnSet |->
                     IF c \in Range(JsonFields)
                     THEN DecodeOrKeep(row[c]) ELSE row[c]]
    IN [c \in ColumnSet |->
          IF c \in Range(BoolFields)
          THEN CoerceBool(parsed[c]) ELSE parsed[c]]

export_json(t, broker_id, pretty) ==
    LET rows == FilterByBroker(t, broker_id)
    IN [kind |-> "json",
        indent |-> IF pretty THEN <<"indent", 2>> ELSE <<"compact">>,
        data |-> [i \in 1..Len(rows) |->
                    [c \in ColumnSet |-> JsonDumps(JsonRecord(rows[i])[c])]]]

-----------------------------------------------------------------------------
(* export_automation_config *)

\* lines 92-96: decode a non-empty value, None on JSONDecodeError
\* fault variant: `pass` instead of `record[json_field] = None`
DecodeOrNoneKeepsText(v) == DecodeOrKeep(v)

DecodeOrNone(v) ==
    IF Truthy(v)
    THEN LET r == JsonLoads(v[2]) IN IF r.ok THEN r.val ELSE NULL
    ELSE v

\* line 99: bool(record.get('requires_search_first'))
DefiniteBool(v) == Bool(Truthy(v))

\* WHERE known_working = 1
\* fault variant: the WHERE clause dropped
KnownWorkingAny(row) == TRUE

KnownWorking(row) == SqlEq(row["known_working"], Integer(1))

\* lines 87-99: the record stored under the row's broker_id
AutomationFields == Range(AutomationColumns) \ {"broker_id"}

AutomationRecord(row) ==
    [c \in AutomationFields |->
       IF c = "requires_search_first" THEN DefiniteBool(row[c])
       ELSE IF c \in Range(JsonFields) THEN DecodeOrNone(row[c])
       ELSE row[c]]

\* the index of the last row of rows whose broker_id is k
LastWithId(rows, k) ==
    CHOOSE i \in 1..Len(rows) :
        /\ rows[i]["broker_id"] = k
        /\ \A j \in (i + 1)..Len(rows) : rows[j]["broker_id"] # k

export_automation_config(t, broker_id) ==
    LET rows == SelectSeq(FilterByBroker(t, broker_id), KnownWorking)
        keys == {rows[i]["broker_id"] : i \in 1..Len(rows)}
    IN [kind |-> "automation",
        configs |-> [k \in keys |->
            LET record == AutomationRecord(rows[LastWithId(rows, k)])
            IN [c \in DOMAIN record |-> JsonDumps(record[c])]]]

-----------------------------------------------------------------------------
(* export_csv *)

export_csv(t, broker_id) ==
    LET rows == FilterByBroker(t, broker_id)
    IN [kind |-> "csv",
        header |-> Columns,
        rows |-> [i \in 1..Len(rows) |->
                    [c \in ColumnSet |-> CsvCell(rows[i][c])]]]

-----------------------------------------------------------------------------
(* export_markdown_table *)

MarkdownHeader ==
    <<"| Broker ID | Page URL | CAPTCHA | Multi-Step | Working | Analyzed |",
      "|-----------|----------|---------|------------|---------|----------|">>

\* the one-character strings U+2713 and U+2717
CheckMark == <<"check">>
CrossMark == <<"cross">>
QuestionMark == <<"?">>
NotAnalyzed == <<"N", "/", "A">>

\* lines 135-147: WHERE broker_id = ? without ORDER BY, or ORDER BY broker_id
MarkdownRows(t, broker_id) ==
    IF Truthy(broker_id)
    THEN FilterByBroker(t, broker_id)
    ELSE OrderByBrokerId(t)

\* line 162 raises IndexError: analyzed is truthy and analyzed.split() is []
AnalyzedRaises(analyzed) == Truthy(analyzed) /\ Split(analyzed[2]) = <<>>

\* line 159
CaptchaCell(captcha) == IF Truthy(captcha) THEN captcha[2] ELSE NoneText[2]

\* line 160
MultiStepCell(multi_step) ==
    IF Truthy(multi_step) THEN CheckMark ELSE CrossMark

\* line 161
WorkingCell(working) == IF Truthy(working) THEN CheckMark ELSE QuestionMark

\* line 162, when it does not raise
AnalyzedCell(analyzed) ==
    IF Truthy(analyzed) THEN Split(analyzed[2])[1] ELSE NotAnalyzed

\* lines 158-166: the cells of the line appended for one row
MarkdownLine(row) ==
    <<Str(row["broker_id"]), Str(row["page_url"]),
      CaptchaCell(row["captcha_type"]), MultiStepCell(row["multi_step"]),
      WorkingCell(row["known_working"]), AnalyzedCell(row["analyzed_at"])>>

\* the first row, in fetch order, at which the loop raises; 0 if none
MarkdownRaisesAt(rows) ==
    LET bad == {i \in 1..Len(rows) : AnalyzedRaises(rows[i]["analyzed_at"])}
    IN IF bad = {} THEN 0 ELSE CHOOSE i \in bad : \A j \in bad : i <= j

export_markdown_table(t, broker_id) ==
    LET rows == MarkdownRows(t, broker_id)
    IN [kind |-> "markdown",
        lines |-> MarkdownHeader
                  \o [i \in 1..Len(rows) |-> MarkdownLine(rows[i])]]

-----------------------------------------------------------------------------
(* show_stats *)

\* SELECT COUNT(*) FROM form_analysis
CountAll(t) == Len(t)

\* SELECT COUNT(*) ... WHERE known_working = 1
CountWorking(t) == Len(SelectSeq(t, KnownWorking))

\* SELECT COUNT(*) ... WHERE captcha_type IS NOT NULL AND captcha_type != 'none'
\* fault variant: `AND captcha_type != 'none'` dropped
CountCaptchaNotNull(t) ==
    LET Keep(row) == ~IsNull(row["captcha_type"]) IN Len(SelectSeq(t, Keep))

CountCaptcha(t) == Len(SelectSeq(t, HasCaptcha))

\* SELECT COUNT(*) ... WHERE multi_step = 1
CountMultiStep(t) ==
    LET Keep(row) == SqlEq(row["multi_step"], Integer(1))
    IN Len(SelectSeq(t, Keep))

\* SELECT captcha_type, COUNT(*) ... GROUP BY captcha_type: the groups
CaptchaGroups(t) ==
    {row["captcha_type"] : row \in {r \in Range(t) : HasCaptcha(r)}}

CaptchaCount(t, type) ==
    LET Keep(row) == HasCaptcha(row) /\ row["captcha_type"] = type
    IN Len(SelectSeq(t, Keep))

\* the orders in which fetchall() may deliver the groups (SQL fixes none)
GroupOrders(t) ==
    LET g == CaptchaGroups(t)
    IN {o \in [1..Cardinality(g) -> g] :
          \A i, j \in DOMAIN o : i # j => o[i] # o[j]}

\* a / b rounded to the nearest integer, ties to even
RoundDiv(a, b) ==
    LET q == a \div b
        r == a % b
    IN IF 2 * r < b THEN q
       ELSE IF 2 * r > b THEN q + 1
       ELSE IF q % 2 = 0 THEN q ELSE q + 1

\* line 204: f"{working/total*100 if total > 0 else 0:.1f}", in tenths
PercentTenths(working, total) ==
    IF total > 0 THEN RoundDiv(working * 1000, total) ELSE 0

\* lines 201-214: the print() calls, given the order of the breakdown
show_stats(t, order) ==
    <<<<"Form Analysis Statistics">>,
      <<"==================================================">>,
      <<"Total brokers analyzed", CountAll(t)>>,
      <<"Known working", CountWorking(t),
        PercentTenths(CountWorking(t), CountAll(t))>>,
      <<"With CAPTCHA", CountCaptcha(t)>>,
      <<"Multi-step forms", CountMultiStep(t)>>,
      <<"">>>>
    \o (IF order # <<>>
        THEN <<<<"CAPTCHA Types:">>>>
             \o [i \in 1..Len(order) |->
                   <<"  - ", order[i], CaptchaCount(t, order[i])>>]
        ELSE <<>>)
    \o <<<<"">>>>

\* the queries show_stats executes, in order
StatsQueries ==
    <<<<"stats", "count_all">>, <<"stats", "count_working">>,
      <<"stats", "count_captcha">>, <<"stats", "count_multi_step">>,
      <<"stats", "group_captcha">>>>

-----------------------------------------------------------------------------
(* main *)

Formats == {"json", "csv", "markdown", "automation", "stats"}

NoOutput == [kind |-> "None"]

\* SELECT name FROM sqlite_master WHERE type='table' AND name='form_analysis'
TableCheckQuery == <<"sqlite_master">>

\* the query an export function executes
ExportQuery(format, broker_id) ==
    <<format, IF Truthy(broker_id) THEN "where_broker" ELSE "all">>

\* `if output:` -- the rendered text is a non-empty string
\* fault variant: the `if output:` test dropped
OutputAlwaysTruthy(o) == TRUE

OutputTruthy(o) ==
    CASE o.kind = "None" -> FALSE
      [] o.kind = "markdown" -> o.lines # <<>>
      [] o.kind = "csv" -> o.header # <<>>
      [] OTHER -> TRUE

\* sys.exit(1) of the two error paths, the status of a run that ends
\* normally, and the status Python gives an uncaught exception
StoreMissingExit == 1
\* fault variant of TableMissingExit: a status of its own
TableMissingExitOther == StoreMissingExit + 1
TableMissingExit == 1
SuccessExit == 0
UncaughtExit == 1

Exited == exitCode # <<>>

Query(name) == <<"query", name, conn>>

\* an uncaught exception: traceback on stderr, the process ends
Raise(what) ==
    /\ stderr' = Append(stderr, <<"Traceback", what>>)
    /\ exitCode' = <<UncaughtExit>>
    /\ pc' = "exited"

\* lines 244-247
\* fault variant of CheckStore: sys.exit(1) dropped
CheckStoreNoExit ==
    /\ pc = "start"
    /\ events' = Append(events, <<"exists", dbExists>>)
    /\ pc' = "connect"
    /\ UNCHANGED <<dbExists, tableExists, table, args, conn, output, stdout,
                   stderr, file, exitCode>>

CheckStore ==
    /\ pc = "start"
    /\ events' = Append(events, <<"exists", dbExists>>)
    /\ IF dbExists
       THEN /\ pc' = "connect"
            /\ UNCHANGED <<stderr, exitCode>>
       ELSE /\ stderr' = Append(stderr, <<"Error: Database not found">>)
            /\ exitCode' = <<StoreMissingExit>>
            /\ pc' = "exited"
    /\ UNCHANGED <<dbExists, tableExists, table, args, conn, output, stdout,
                   file>>

\* lines 249-250
Connect ==
    /\ pc = "connect"
    /\ conn' = "open"
    /\ events' = Append(events, <<"connect">>)
    /\ pc' = "check_table"
    /\ UNCHANGED <<dbExists, tableExists, table, args, output, stdout,
                   stderr, file, exitCode>>

\* lines 253-260
CheckTable ==
    /\ pc = "check_table"
    /\ events' = events \o <<Query(TableCheckQuery), <<"fetchone", tableExists>>>>
    /\ IF tableExists
       THEN /\ pc' = "generate"
            /\ UNCHANGED <<stderr, exitCode>>
       ELSE /\ stderr' = stderr
                 \o <<<<"Error: form_analysis table does not exist">>,
                      <<"Run the database migration first">>>>
            /\ exitCode' = <<TableMissingExit>>
            /\ pc' = "exited"
    /\ UNCHANGED <<dbExists, tableExists, table, args, conn, output, stdout,
                   file>>

\* lines 263-273
Generate ==
    /\ pc = "generate"
    /\ IF args.format = "stats"
       THEN \E order \in GroupOrders(table) :
            /\ events' = events
                 \o [i \in 1..Len(StatsQueries) |-> Query(StatsQueries[i])]
                 \o <<<<"stdout">>>>
            /\ stdout' = stdout \o show_stats(table, order)
            /\ output' = NoOutput
            /\ pc' = "write"
            /\ UNCHANGED <<stderr, exitCode>>
       ELSE /\ events' = Append(events,
                                Query(ExportQuery(args.format, args.broker)))
            /\ IF /\ args.format = "markdown"
                  /\ MarkdownRaisesAt(MarkdownRows(table, args.broker)) # 0
               THEN Raise("IndexError") /\ UNCHANGED <<output, stdout>>
               ELSE /\ output' =
                         CASE args.format = "json" ->
                                export_json(table, args.broker, args.pretty)
                           [] args.format = "csv" ->
                                export_csv(table, args.broker)
                           [] args.format = "markdown" ->
                                export_markdown_table(table, args.broker)
                           [] args.format = "automation" ->
                                export_automation_config(table, args.broker)
                    /\ pc' = "write"
                    /\ UNCHANGED <<stdout, stderr, exitCode>>
    /\ UNCHANGED <<dbExists, tableExists, table, args, conn, file>>

\* lines 276-282; open() or f.write() may raise OSError
WriteOutput ==
    /\ pc = "write"
    /\ IF ~OutputTruthy(output)
       THEN /\ pc' = "close"
            /\ UNCHANGED <<stdout, stderr, file, events, exitCode>>
       ELSE IF Truthy(args.output)
       THEN \E result \in {"written", "open_raises", "write_raises"} :
            CASE result = "written" ->
                   /\ file' = Append(file, output)
                   /\ stderr' = Append(stderr, <<"Exported to", args.output>>)
                   /\ events' = events \o <<<<"open">>, <<"write">>>>
                   /\ pc' = "close"
                   /\ UNCHANGED <<stdout, exitCode>>
              [] result = "open_raises" ->
                   /\ Raise("OSError")
                   /\ UNCHANGED <<stdout, file, events>>
              [] result = "write_raises" ->
                   /\ Raise("OSError")
                   /\ events' = Append(events, <<"open">>)
                   /\ UNCHANGED <<stdout, file>>
       ELSE /\ stdout' = Append(stdout, <<"output", output>>)
            /\ events' = Append(events, <<"stdout">>)
            /\ pc' = "close"
            /\ UNCHANGED <<stderr, file, exitCode>>
    /\ UNCHANGED <<dbExists, tableExists, table, args, conn, output>>

\* line 284, then main() returns
Close ==
    /\ pc = "close"
    /\ conn' = "closed"
    /\ events' = Append(events, <<"close">>)
    /\ exitCode' = <<SuccessExit>>
    /\ pc' = "exited"
    /\ UNCHANGED <<dbExists, tableExists, table, args, output, stdout,
                   stderr, file>>

Next == CheckStore \/ Connect \/ CheckTable \/ Generate \/ WriteOutput \/ Close

-----------------------------------------------------------------------------
(* The stores and command lines a run is started with *)

BrokerIds == {<<"a">>, <<"b">>}

\* a row whose every optional column is NULL and every flag is 0
DefaultRow(id) ==
    [c \in ColumnSet |->
       CASE c = "broker_id" -> Text(id)
         [] c \in {"page_url", "form_selector", "submit_button_selector",
                   "confirmation_selector"} -> Text(<<"x">>)
         [] c \in Range(BoolFields) -> Integer(0)
         [] c = "analyzed_at" -> Text(<<"d">>)
         [] OTHER -> NULL]

\* the tables with rows from rowset and no broker_id twice
Tables(rowset) ==
    LET ids == {row["broker_id"] : row \in rowset}
    IN {t \in SeqsUpTo(rowset, Cardinality(ids)) :
          \A i, j \in 1..Len(t) :
              i # j => t[i]["broker_id"] # t[j]["broker_id"]}

Flags == {NULL, Integer(0), Integer(1)}

InitRun(present, tables, formats, brokers, outputs, pretties) ==
    /\ dbExists \in present
    /\ tableExists \in present
    /\ table \in tables
    /\ args \in [format : formats, broker : brokers, output : outputs,
                 pretty : pretties]
    /\ pc = "start"
    /\ conn = "none"
    /\ output = NoOutput
    /\ stdout = <<>>
    /\ stderr = <<>>
    /\ file = <<>>
    /\ events = <<>>
    /\ exitCode = <<>>

\* --broker / --output: not given, given empty, given
BrokerArgs == {NULL, Text(<<>>)} \cup {Text(id) : id \in BrokerIds}
OutputArgs == {NULL, Text(<<>>), Text(<<"o">>)}

RowsMain ==
    {[DefaultRow(id) EXCEPT !["known_working"] = kw] :
        id \in BrokerIds, kw \in {Integer(0), Integer(1)}}

\* every command line, every state of the store file, small tables
Init ==
    InitRun(BOOLEAN, Tables(RowsMain), Formats, BrokerArgs, OutputArgs,
            BOOLEAN)

Spec == Init /\ [][Next]_vars

\* the encoded-text values: NULL and every text up to MaxJsonLen
JsonTexts == {NULL} \cup {Text(s) : s \in SeqsUpTo(JsonAlphabet, MaxJsonLen)}

\* working records with one encoded-text field set, and the default record
RowsDecode ==
    {[DefaultRow(id) EXCEPT ![f] = v, !["known_working"] = Integer(1)] :
        id \in BrokerIds, f \in Range(JsonFields), v \in JsonTexts}
    \cup {DefaultRow(id) : id \in BrokerIds}

\* stores whose encoded-text fields hold every text, full dump and config
InitDecode ==
    InitRun({TRUE}, Tables(RowsDecode), {"json", "automation"}, {NULL},
            {NULL}, {FALSE})

SpecDecode == InitDecode /\ [][Next]_vars

RowsFlags ==
    {[[DefaultRow(id) EXCEPT ![f] = v] EXCEPT !["known_working"] = kw] :
        id \in BrokerIds, f \in Range(BoolFields), v \in Flags, kw \in Flags}

\* stores whose flag columns hold 1, 0 and NULL, full dump and config
InitFlags ==
    InitRun({TRUE}, Tables(RowsFlags), {"json", "automation"}, {NULL},
            {NULL, Text(<<"o">>)}, BOOLEAN)

SpecFlags == InitFlags /\ [][Next]_vars

CaptchaTypes == {NULL, Text(<<>>), NoneText, Text(<<"x">>), Text(<<"y">>)}

\* the analyzed_at values: NULL and every text of "d" and " " up to MaxDateLen
DateTexts == {NULL} \cup {Text(s) : s \in SeqsUpTo({"d", " "}, MaxDateLen)}

RowsTable ==
    {[DefaultRow(id) EXCEPT !["captcha_type"] = c, !["analyzed_at"] = a] :
        id \in BrokerIds, c \in CaptchaTypes, a \in DateTexts}
    \cup
    {[DefaultRow(id) EXCEPT !["multi_step"] = m, !["known_working"] = kw] :
        id \in BrokerIds, m \in Flags, kw \in Flags}

\* stores for the summary table, unfiltered
InitTable ==
    InitRun({TRUE}, Tables(RowsTable), {"markdown"}, {NULL},
            {NULL, Text(<<"o">>)}, {FALSE})

SpecTable == InitTable /\ [][Next]_vars

StatsIds == BrokerIds \cup {<<"a", "b">>}

RowsStats ==
    {[DefaultRow(id) EXCEPT !["captcha_type"] = c] :
        id \in StatsIds, c \in CaptchaTypes}
    \cup
    {[DefaultRow(id) EXCEPT !["multi_step"] = m, !["known_working"] = kw] :
        id \in StatsIds, m \in Flags, kw \in Flags}

\* stores of up to three records for the statistics
InitStats ==
    InitRun({TRUE}, Tables(RowsStats), {"stats"}, {NULL, Text(<<"a">>)},
            {NULL}, {FALSE})

SpecStats == InitStats /\ [][Next]_vars

-----------------------------------------------------------------------------
(* Properties of a run of main() *)

IsQuery(e) == e[1] = "query"
IsRecordQuery(e) == IsQuery(e) /\ e[2] # TableCheckQuery
IsOutputEvent(e) == e[1] \in {"stdout", "open", "write"}
CountEvents(tag) == Cardinality({i \in DOMAIN events : events[i][1] = tag})

\* the run ended by returning from main() after conn.close()
Succeeded == Exited /\ events # <<>> /\ events[Len(events)] = <<"close">>
StoreMissingRun == Exited /\ ~dbExists
TableMissingRun == Exited /\ dbExists /\ ~tableExists

\* C1 as stated: exit status 0 on success, non-zero when the store file is
\* missing, non-zero when the table is missing, and the status of each of
\* the two error paths differs from the status the other one exits with.
C1_DistinctCodes ==
    /\ Succeeded => exitCode = <<0>>
    /\ StoreMissingRun =>
         exitCode # <<0>> /\ exitCode # <<TableMissingExit>>
    /\ TableMissingRun =>
         exitCode # <<0>> /\ exitCode # <<StoreMissingExit>>

\* C1 as amended: exit status 0 on success, and the same non-zero status 1
\* both when the store file is missing and when the table is missing.
C1_ExitCodes ==
    /\ Succeeded => exitCode = <<0>>
    /\ StoreMissingRun => exitCode = <<1>>
    /\ TableMissingRun => exitCode = <<1>>

C1_Witness == TableMissingRun /\ exitCode = <<StoreMissingExit>>

\* C2: a record query or a write to standard output or the output file
\* happens only after the store-file check and then the table check have
\* both passed in this run; a run whose store file is missing ends with no
\* connection opened, no query issued and nothing written as output.
C2_ChecksBeforeQueries ==
    /\ \A i \in DOMAIN events :
         IsRecordQuery(events[i]) \/ IsOutputEvent(events[i]) =>
           \E j, k \in 1..(i - 1) :
              /\ j < k
              /\ events[j] = <<"exists", TRUE>>
              /\ events[k] = <<"fetchone", TRUE>>
    /\ stdout # <<>> \/ file # <<>> =>
         \E i \in DOMAIN events : IsOutputEvent(events[i])
    /\ StoreMissingRun =>
         /\ events = <<<<"exists", FALSE>>>>
         /\ conn = "none"
         /\ stdout = <<>>
         /\ file = <<>>

C2_Witness ==
    /\ Exited
    /\ \E i \in DOMAIN events : IsRecordQuery(events[i])
    /\ stdout # <<>>

\* C3 as stated: at most one connection is opened, every query runs on the
\* open connection, none after the close, and a run that opened the
\* connection has closed it exactly once when the process has terminated.
C3_ClosedOnEveryPath ==
    /\ CountEvents("connect") <= 1
    /\ \A i \in DOMAIN events : IsQuery(events[i]) => events[i][3] = "open"
    /\ \A i, j \in DOMAIN events :
         events[i] = <<"close">> /\ IsQuery(events[j]) => j < i
    /\ Exited /\ CountEvents("connect") = 1 =>
         CountEvents("close") = 1 /\ conn = "closed"

\* what a successful run of a format other than stats has rendered
Rendered ==
    CASE args.format = "json" -> export_json(table, args.broker, args.pretty)
      [] args.format = "csv" -> export_csv(table, args.broker)
      [] args.format = "markdown" -> export_markdown_table(table, args.broker)
      [] args.format = "automation" ->
            export_automation_config(table, args.broker)

\* format stats: the counts are those of the whole table whatever --broker
\* is, they are on standard output, and the output file is never touched
StatsIgnoresFilterAndOutput ==
    args.format = "stats" =>
      /\ file = <<>>
      /\ CountEvents("open") = 0
      /\ Succeeded =>
           /\ \E order \in GroupOrders(table) :
                 stdout = show_stats(table, order)
           /\ stdout[3] = <<"Total brokers analyzed", Len(table)>>
           /\ stdout[4][2] =
                Cardinality({i \in DOMAIN table :
                               table[i]["known_working"] = Integer(1)})

WrittenOnceTo(toFile) ==
    /\ CountEvents("stdout") + CountEvents("write") = 1
    /\ IF toFile
       THEN file = <<Rendered>> /\ stdout = <<>>
       ELSE stdout = <<<<"output", Rendered>>>> /\ file = <<>>

\* C10 as stated: with format stats the filter and the output path have no
\* effect; in every other format a successful run writes the rendered
\* output exactly once, to the file when a path is given (--output present)
\* and to standard output otherwise.
C10_PathGiven ==
    /\ StatsIgnoresFilterAndOutput
    /\ args.format # "stats" /\ Succeeded =>
         WrittenOnceTo(~IsNull(args.output))

\* C10 as amended: the same, with the output going to the file when a
\* non-empty path is given, and to standard output when --output is absent
\* or is the empty string.
C10_NonEmptyPath ==
    /\ StatsIgnoresFilterAndOutput
    /\ args.format # "stats" /\ Succeeded =>
         WrittenOnceTo(~IsNull(args.output) /\ args.output # Text(<<>>))

C10_Witness ==
    /\ Succeeded
    /\ args.format = "stats"
    /\ args.broker = Text(<<"a">>)
    /\ args.output = Text(<<"o">>)
    /\ Len(table) = 2
    /\ stdout # <<>>

-----------------------------------------------------------------------------
(* Properties of the exported records *)

\* the stored row with broker_id id (ids are unique in every table drawn)
RowOf(id) ==
    table[CHOOSE i \in DOMAIN table : table[i]["broker_id"] = Text(id)]

\* the texts of the JSON fragment: a run of digits, or a bracketed text
RECURSIVE IsJsonText(_)
IsJsonText(s) ==
    \/ s # <<>> /\ \A i \in DOMAIN s : s[i] = "1"
    \/ /\ Len(s) >= 2
       /\ s[1] = "[" /\ s[Len(s)] = "]"
       /\ Len(s) = 2 \/ IsJsonText(SubSeq(s, 2, Len(s) - 1))

\* a stored value that is not a valid encoded structure
Invalid(v) == IsText(v) /\ ~IsJsonText(v[2])

WorkingIds ==
    {table[i]["broker_id"] :
        i \in {k \in DOMAIN table : table[k]["known_working"] = Integer(1)}}

\* export_json keeps every record, an invalid field as its raw text, a
\* valid one decoded, and the plain columns as stored
FullDumpTolerant ==
    Succeeded /\ args.format = "json" =>
      /\ Len(output.data) = Len(table)
      /\ \A i \in DOMAIN table :
           /\ \A f \in Range(JsonFields) :
                /\ Invalid(table[i][f]) =>
                     output.data[i][f] = <<"jstr", table[i][f][2]>>
                /\ IsText(table[i][f]) /\ ~Invalid(table[i][f]) =>
                     output.data[i][f][1] \in {"jnum", "jarr"}
           /\ output.data[i]["broker_id"] =
                <<"jstr", table[i]["broker_id"][2]>>

\* C4 as stated: an invalid encoded-text value never aborts the export nor
\* touches the other records; export_json emits it as the raw text and
\* export_automation_config emits null for it, never the raw text.
C4_InvalidIsNull ==
    /\ Exited => Succeeded
    /\ FullDumpTolerant
    /\ Succeeded /\ args.format = "automation" =>
         /\ DOMAIN output.configs = WorkingIds
         /\ \A k \in WorkingIds : \A f \in Range(JsonFields) :
              Invalid(RowOf(k[2])[f]) => output.configs[k][f] = <<"jnull">>

\* C4 as amended: the same for every non-empty invalid value; an empty text
\* is not decoded and is emitted as the empty text by both exports.
C4_NonEmptyInvalidIsNull ==
    /\ Exited => Succeeded
    /\ FullDumpTolerant
    /\ Succeeded /\ args.format = "automation" =>
         /\ DOMAIN output.configs = WorkingIds
         /\ \A k \in WorkingIds : \A f \in Range(JsonFields) :
              LET v == RowOf(k[2])[f]
              IN /\ Invalid(v) /\ v[2] # <<>> =>
                      output.configs[k][f] = <<"jnull">>
                 /\ v = Text(<<>>) =>
                      output.configs[k][f] = <<"jstr", <<>>>>
                 /\ IsText(v) /\ ~Invalid(v) =>
                      output.configs[k][f][1] \in {"jnum", "jarr"}

C4_Witness ==
    /\ Succeeded
    /\ args.format = "automation"
    /\ Cardinality(WorkingIds) = 2
    /\ \E k \in WorkingIds :
         /\ Invalid(RowOf(k[2])["field_mappings"])
         /\ RowOf(k[2])["field_mappings"] # Text(<<>>)
         /\ output.configs[k]["field_mappings"] = <<"jnull">>
    /\ \E k \in WorkingIds :
         output.configs[k]["required_delays"][1] = "jarr"

\* the JSON value a stored flag must become in the full dump
FlagInDump(v) ==
    CASE v = Integer(1) -> <<"jbool", TRUE>>
      [] v = Integer(0) -> <<"jbool", FALSE>>
      [] v = NULL -> <<"jnull">>

\* C5: export_json maps a stored flag 1 to true, 0 to false and NULL to null
\* for each of the six flag fields; export_automation_config always emits
\* requires_search_first as a boolean, true for 1 and false for 0 or NULL.
C5_Flags ==
    /\ Succeeded /\ args.format = "json" =>
         \A i \in DOMAIN table :
            \A f \in {"multi_step", "requires_search_first",
                      "has_rate_limiting", "uses_ajax",
                      "redirect_after_submit", "known_working"} :
               output.data[i][f] = FlagInDump(table[i][f])
    /\ Succeeded /\ args.format = "automation" =>
         \A k \in DOMAIN output.configs :
            output.configs[k]["requires_search_first"] =
              <<"jbool", RowOf(k[2])["requires_search_first"] = Integer(1)>>

C5_Witness ==
    /\ Succeeded
    /\ args.format = "json"
    /\ \E i \in DOMAIN table :
         /\ table[i]["uses_ajax"] = NULL
         /\ table[i]["known_working"] = Integer(1)
         /\ output.data[i]["uses_ajax"] = <<"jnull">>
         /\ output.data[i]["known_working"] = <<"jbool", TRUE>>

\* C6: with unique ids and no filter the keys of the automation config are
\* exactly the ids of the records whose known_working is 1, and every value
\* has exactly the eleven automation fields, the id not among them.
C6_ConfigKeys ==
    Succeeded /\ args.format = "automation" /\ IsNull(args.broker) =>
      /\ DOMAIN output.configs = WorkingIds
      /\ \A k \in DOMAIN output.configs :
           DOMAIN output.configs[k] =
             {"page_url", "form_selector", "field_mappings", "captcha_type",
              "captcha_selector", "submit_button_selector",
              "confirmation_selector", "confirmation_text_pattern",
              "required_delays", "requires_search_first",
              "search_form_details"}

C6_Witness ==
    /\ Succeeded
    /\ args.format = "automation"
    /\ IsNull(args.broker)
    /\ Len(table) = 2
    /\ Cardinality(DOMAIN output.configs) = 1
    /\ \E i \in DOMAIN table : table[i]["known_working"] = NULL

-----------------------------------------------------------------------------
(* Properties of the summary table, the statistics and the filter *)

\* the text of s before its first whitespace character
RECURSIVE BeforeFirstSpace(_)
BeforeFirstSpace(s) ==
    IF s = <<>> \/ s[1] = " " THEN <<>>
    ELSE <<s[1]>> \o BeforeFirstSpace(Tail(s))

\* the cells the display rules give a stored row
DisplayCells(row) ==
    <<row["broker_id"][2],
      row["page_url"][2],
      IF IsNull(row["captcha_type"])
        THEN <<"n", "o", "n", "e">> ELSE row["captcha_type"][2],
      IF row["multi_step"] = Integer(1) THEN <<"check">> ELSE <<"cross">>,
      IF row["known_working"] = Integer(1) THEN <<"check">> ELSE <<"?">>,
      IF IsNull(row["analyzed_at"]) \/ row["analyzed_at"] = Text(<<>>)
        THEN <<"N", "/", "A">>
        ELSE BeforeFirstSpace(row["analyzed_at"][2])>>

RenderingFailed ==
    \E i \in DOMAIN stderr : stderr[i] = <<"Traceback", "IndexError">>

\* C7 as stated: unfiltered, export_markdown_table never fails and returns
\* the two header lines and then one row per record in ascending id order,
\* each cell following the display rules.
C7_TableRows ==
    args.format = "markdown" /\ IsNull(args.broker) =>
      /\ ~RenderingFailed
      /\ output.kind = "markdown" =>
           /\ Len(output.lines) = 2 + Len(table)
           /\ SubSeq(output.lines, 1, 2) = MarkdownHeader
           /\ \A i \in 1..Len(table) :
                output.lines[2 + i] = DisplayCells(RowOf(output.lines[2 + i][1]))
           /\ \A i \in 1..(Len(table) - 1) :
                TextLess(output.lines[2 + i][1], output.lines[3 + i][1])

\* the lines of the per-type breakdown show_stats printed
BreakdownLines == SelectSeq(stdout, LAMBDA e : e[1] = "  - ")

RECURSIVE SumCounts(_)
SumCounts(lines) ==
    IF lines = <<>> THEN 0 ELSE Head(lines)[3] + SumCounts(Tail(lines))

RowsWhere(P(_)) == {i \in DOMAIN table : P(table[i])}

PresentCaptcha(row) ==
    row["captcha_type"] # NULL /\ row["captcha_type"] # Text(<<"n", "o", "n", "e">>)

\* C8: show_stats never fails and reports the number of records, of working
\* records, of records with a captcha type other than none, of multi-step
\* records, one breakdown line for each such captcha type with counts that
\* add up to the with-captcha count, and the working share in percent to
\* one decimal, 0.0 for an empty table.
C8_Stats ==
    /\ Exited => Succeeded
    /\ Succeeded =>
         LET total == Len(table)
             working ==
               Cardinality(RowsWhere(LAMBDA r : r["known_working"] = Integer(1)))
             captcha == Cardinality(RowsWhere(PresentCaptcha))
             multi ==
               Cardinality(RowsWhere(LAMBDA r : r["multi_step"] = Integer(1)))
             types == {table[i]["captcha_type"] : i \in RowsWhere(PresentCaptcha)}
             tenths == stdout[4][3]
         IN /\ stdout[3] = <<"Total brokers analyzed", total>>
            /\ stdout[4][1] = "Known working" /\ stdout[4][2] = working
            /\ stdout[5] = <<"With CAPTCHA", captcha>>
            /\ stdout[6] = <<"Multi-step forms", multi>>
            /\ {BreakdownLines[i][2] : i \in DOMAIN BreakdownLines} = types
            /\ Len(BreakdownLines) = Cardinality(types)
            /\ \A i \in DOMAIN BreakdownLines :
                 BreakdownLines[i][3] =
                   Cardinality({k \in DOMAIN table :
                      table[k]["captcha_type"] = BreakdownLines[i][2]})
            /\ SumCounts(BreakdownLines) = captcha
            /\ total = 0 => tenths = 0
            /\ total > 0 =>
                 /\ 2 * (tenths * total - working * 1000) <= total
                 /\ 2 * (working * 1000 - tenths * total) <= total

C8_Witness ==
    /\ Succeeded
    /\ Len(table) = 3
    /\ stdout[4] = <<"Known working", 1, 333>>
    /\ stdout[5] = <<"With CAPTCHA", 2>>
    /\ Len(BreakdownLines) = 2
    /\ \E i \in DOMAIN table : table[i]["captcha_type"] = NULL

\* the entity ids of the records in an export's output, one per record
OutputIds(o) ==
    CASE o.kind = "json" ->
           [i \in DOMAIN o.data |-> o.data[i]["broker_id"][2]]
      [] o.kind = "csv" -> [i \in DOMAIN o.rows |-> o.rows[i]["broker_id"]]
      [] o.kind = "markdown" ->
           [i \in 1..(Len(o.lines) - 2) |-> o.lines[2 + i][1]]
      [] o.kind = "automation" ->
           LET keys == {k[2] : k \in DOMAIN o.configs}
           IN CHOOSE q \in [1..Cardinality(keys) -> keys] : Range(q) = keys

\* C9 as stated: when --broker is given, every record an export returns has
\* that entity id and there is at most one; a filter that matches no record
\* gives an empty result and no error.
C9_FilterRestricts ==
    ~IsNull(args.broker) /\ args.format # "stats" =>
      /\ ~RenderingFailed
      /\ output.kind # "None" =>
           /\ \A i \in DOMAIN OutputIds(output) :
                OutputIds(output)[i] = args.broker[2]
           /\ Len(OutputIds(output)) <= 1
====
